---- MODULE Spec2Model ----
(***************************************************************************)
(* Model of create_capacity_model.py: the workbook generator writes the    *)
(* input cells and, row by row, the formulas of the DEMAND FORECAST,       *)
(* CAPACITY MODEL and FACILITY & EQUIPMENT tabs.  A cell of the model      *)
(* holds the value its formula evaluates to.  Numbers are exact rationals  *)
(* [n, d] in lowest terms with d > 0 (the spreadsheet's floating point     *)
(* rounding is not modelled).                                              *)
(***************************************************************************)
EXTENDS Integers, Sequences, FiniteSets, TLC

VARIABLES inputs, scenarios, demand, capacity, bottleneck, facility, pc, week, row,
          fills, comparison, dashboard, saved

vars == <<inputs, scenarios, demand, capacity, bottleneck, facility, pc, week, row,
          fills, comparison, dashboard, saved>>

(***************************************************************************)
(* Bounds.  The source writes 52 forecast weeks and 12 capacity weeks; the *)
(* model keeps the shape (more forecast weeks than capacity weeks).        *)
(***************************************************************************)
ForecastWeeks == 4
CapacityWeeks == 3

(***************************************************************************)
(* Exact rational arithmetic.                                              *)
(***************************************************************************)
Abs(x) == IF x < 0 THEN -x ELSE x

RECURSIVE GCD(_, _)
GCD(a, b) == IF b = 0 THEN a ELSE GCD(b, a % b)

R(n, d) ==
    LET g == GCD(Abs(n), Abs(d))
        s == IF d < 0 THEN -1 ELSE 1
    IN  [n |-> s * (n \div g), d |-> s * (d \div g)]

RInt(i) == [n |-> i, d |-> 1]

RAdd(a, b) == R(a.n * b.d + b.n * a.d, a.d * b.d)
RSub(a, b) == R(a.n * b.d - b.n * a.d, a.d * b.d)

\* cross-reduced product, so that intermediate values stay small
RMul(a, b) ==
    LET g1 == GCD(Abs(a.n), b.d)
        g2 == GCD(Abs(b.n), a.d)
    IN  R((a.n \div g1) * (b.n \div g2), (a.d \div g2) * (b.d \div g1))

RDiv(a, b) == RMul(a, R(b.d, b.n))

RGt(a, b) == a.n * b.d > b.n * a.d
RLt(a, b) == RGt(b, a)
RGe(a, b) == ~RLt(a, b)
RLe(a, b) == ~RGt(a, b)

\* the largest element of a non-empty set of rationals
RMax(S) == CHOOSE x \in S : \A y \in S : RGe(x, y)

\* the smallest integer >= a
Ceil(a) == -((-a.n) \div a.d)

\* Excel ROUNDUP(x, 0): rounds away from zero
ROUNDUP(a) == IF a.n >= 0 THEN Ceil(a) ELSE a.n \div a.d

\* Excel MAX over a range: blank cells are ignored, an all-blank range gives 0
MAX(S) == IF S = {} THEN RInt(0) ELSE RMax(S)

(***************************************************************************)
(* The tabs' fixed layout.                                                 *)
(***************************************************************************)
\* stages of the CAPACITY MODEL tab, in row order
stages == <<"Compounding", "PV1 Techs", "PV2 Techs", "Fulfillment">>

NumStages == Len(stages)

\* facility resources, in the order of INPUTS rows 34..36
facilities == <<"Compounding Hoods", "Storage (sq ft)", "Packing Stations">>

Hoods == 1
Storage == 2
Stations == 3

\* row of the CAPACITY MODEL tab that holds stage number s of week w:
\* rows start at 11, four stage rows and one blank separator row per week
FirstCapacityRow == 11
CapRow(w, s) == FirstCapacityRow + (w - 1) * (NumStages + 1) + (s - 1)

(***************************************************************************)
(* Input cells.  The generator writes default values into the blue cells   *)
(* and the user may edit them: Init draws them from small sets.            *)
(***************************************************************************)
\* INPUTS - Current State, C10:D13 (headcount, capacity per person per day)
StaffingInputs ==
    { [headcount |-> <<6, 4, 3, 8>>, capPerPerson |-> <<50, 200, 160, 120>>],
      [headcount |-> <<4, 4, 4, 4>>, capPerPerson |-> <<200, 200, 200, 200>>],
      [headcount |-> <<0, 4, 5, 4>>, capPerPerson |-> <<50, 200, 160, 200>>],
      [headcount |-> <<9, 7, 3, 8>>, capPerPerson |-> <<100, 100, 160, 120>>],
      [headcount |-> <<10, 9, 9, 8>>, capPerPerson |-> <<100, 100, 100, 100>>] }

\* INPUTS - Current State, C18
BaselineInputs == {800, 630}

\* INPUTS - Current State, C19
WorkingDaysInputs == {2, 5}

\* INPUTS - Current State, C26: monthly growth in percent (216.5, 0, -216.5),
\* chosen so that the weekly rate C26/4.33 is 50, 0 and -50 percent
GrowthInputs == { R(433, 2), RInt(0), R(-433, 2) }

\* INPUTS - Current State, C28: the forecast period in weeks, either the
\* written default (the number of rows the forecast loop writes) or an edit
ForecastPeriodInputs == {ForecastWeeks, 2}

\* INPUTS - Current State, C34:E36 (current available, max capacity, per unit)
FacilityInputs ==
    { <<[current |-> 6,  max |-> 8,  perUnit |-> 60],
        [current |-> 8000, max |-> 12000, perUnit |-> 10],
        [current |-> 10, max |-> 15, perUnit |-> 100]>>,
      <<[current |-> 14, max |-> 16, perUnit |-> 60],
        [current |-> 8000, max |-> 12000, perUnit |-> 10],
        [current |-> 10, max |-> 15, perUnit |-> 100]>>,
      <<[current |-> 12, max |-> 16, perUnit |-> 60],
        [current |-> 8000, max |-> 12000, perUnit |-> 10],
        [current |-> 8, max |-> 15, perUnit |-> 100]>> }

\* INPUTS - Current State, C41:C42 (vial machine delivery week, boost percent)
EquipmentInputs == { [week |-> 2, boostPercent |-> 20] }

\* INPUTS - Scenarios, rows 15..19: the baseline hiring plan
HiringInputs ==
    { << >>,
      <<[role |-> "PV2 Techs", count |-> 2, week |-> 1, onboarding |-> 1],
        [role |-> "Fulfillment Staff", count |-> 1, week |-> 2, onboarding |-> 1],
        [role |-> "PV1 Techs", count |-> 1, week |-> 2, onboarding |-> 2]>> }

\* INPUTS - Scenarios, row 7: the scenario columns C, D and E
scenario_names == <<"Baseline", "Optimistic", "Pessimistic">>

Baseline == 1
Optimistic == 2
Pessimistic == 3

\* INPUTS - Scenarios, C8:E8: monthly growth in percent of the three scenarios
ScenarioGrowthInputs ==
    { <<R(433, 2), RInt(433), RInt(0)>>,
      <<RInt(0), R(433, 2), R(-433, 2)>> }

\* INPUTS - Scenarios, rows 25..29 and 35..39: the other two hiring plans
OptimisticHiringInputs ==
    { <<[role |-> "PV2 Techs", count |-> 3, week |-> 1, onboarding |-> 1]>> }

PessimisticHiringInputs ==
    { <<[role |-> "PV2 Techs", count |-> 1, week |-> 2, onboarding |-> 1]>> }

Init ==
    /\ \E st \in StaffingInputs, b \in BaselineInputs, wd \in WorkingDaysInputs,
          g \in GrowthInputs, f \in FacilityInputs, e \in EquipmentInputs,
          fp \in ForecastPeriodInputs :
          inputs = [headcount |-> st.headcount, capPerPerson |-> st.capPerPerson,
                    baselineDailyOrders |-> b, workingDays |-> wd,
                    monthlyGrowth |-> g, forecastPeriod |-> fp,
                    facility |-> f, equipment |-> e]
    /\ \E h \in HiringInputs, oh \in OptimisticHiringInputs,
          ph \in PessimisticHiringInputs, sg \in ScenarioGrowthInputs :
          scenarios = [growth |-> sg, baselineHires |-> h,
                       optimisticHires |-> oh, pessimisticHires |-> ph]
    /\ demand = << >>
    /\ capacity = << >>
    /\ bottleneck = << >>
    /\ facility = << >>
    /\ pc = "demand"
    /\ week = 1
    /\ row = FirstCapacityRow
    /\ fills = << >>
    /\ comparison = << >>
    /\ dashboard = << >>
    /\ saved = << >>

(***************************************************************************)
(* DEMAND FORECAST tab.                                                    *)
(***************************************************************************)
\* C5 and C6: monthly growth and the weekly growth rate, both in percent
WeeksPerMonth == R(433, 100)
C5 == inputs.monthlyGrowth
C6 == RDiv(C5, WeeksPerMonth)
\* C7 and C8: starting daily orders and working days per week
C7 == RInt(inputs.baselineDailyOrders)
C8 == RInt(inputs.workingDays)

\* column C of a week >= 2: =B{row-1}*C{row-1}*(1+$C$6/100)/$C$8 where
\* column B of the previous row holds that row's week number
daily_formula(w) ==
    IF w = 1
    THEN C7
    ELSE RDiv(RMul(RMul(RInt(demand[w - 1].week), demand[w - 1].dailyOrders),
                   RAdd(RInt(1), RDiv(C6, RInt(100)))),
              C8)

\* column D: =C{row}*$C$8
weekly_formula(daily) == RMul(daily, C8)

\* column E: =D{row}*4.33
monthly_formula(weekly) == RMul(weekly, WeeksPerMonth)

\* a cumulative cell that adds the previous row's weekly orders, not its total
cum_formula_PrevWeekly(w, weekly) ==
    IF w = 1 THEN weekly ELSE RAdd(demand[w - 1].weeklyOrders, weekly)

\* column F: =D{row} in week 1, =F{row-1}+D{row} afterwards
cum_formula(w, weekly) ==
    IF w = 1 THEN weekly ELSE RAdd(demand[w - 1].cumulativeOrders, weekly)

\* row = 11 + week: the sheet row of the forecast of a week, and the forecast
\* row a reference to sheet row r of the DEMAND FORECAST tab reads
DemandRow(w) == 11 + w
DemandCell(r) == demand[CHOOSE w \in DOMAIN demand : DemandRow(w) = r]

\* one iteration of the loop over the forecast weeks
BuildDemandForecastRow ==
    /\ pc = "demand"
    /\ week <= ForecastWeeks
    /\ LET daily == daily_formula(week)
           weekly == weekly_formula(daily)
       IN  demand' = Append(demand,
                        [week |-> week, dailyOrders |-> daily,
                         weeklyOrders |-> weekly,
                         monthlyOrders |-> monthly_formula(weekly),
                         cumulativeOrders |-> cum_formula(week, weekly)])
    /\ IF week = ForecastWeeks
       THEN pc' = "capacity" /\ week' = 1
       ELSE pc' = pc /\ week' = week + 1
    /\ UNCHANGED <<inputs, scenarios, capacity, bottleneck, facility, row,
                   fills, comparison, dashboard, saved>>

(***************************************************************************)
(* CAPACITY MODEL tab.                                                     *)
(***************************************************************************)
\* 'INPUTS - Current State'!C10..C13 and D10..D13, the cells a stage refers to
hc_ref(s) == inputs.headcount[s]
cap_ref(s) == inputs.capPerPerson[s]

\* sum of the counts of the hires of plan h whose index is in I
RECURSIVE HireSum(_, _)
HireSum(h, I) ==
    IF I = {} THEN 0
    ELSE LET i == CHOOSE x \in I : TRUE IN h[i].count + HireSum(h, I \ {i})

\* a headcount cell that adds a hire from its hiring week on, onboarding ignored
Headcount_NoOnboarding(w, s) ==
    LET h == scenarios.baselineHires
    IN  inputs.headcount[s]
        + HireSum(h, {i \in DOMAIN h : h[i].role = stages[s] /\ w >= h[i].week})

\* column D, "Headcount (with hiring adjustments)": both branches of the
\* source write the reference to the current headcount
Headcount(w, s) == IF w = 1 THEN hc_ref(s) ELSE hc_ref(s)

\* column F: =D{row}*E{row}*'INPUTS - Current State'!$C$19
cap_formula(D, E) == RMul(RMul(RInt(D), RInt(E)), RInt(inputs.workingDays))

\* a demand cell that refers to the sheet row above the one of its week (the
\* header row, without a number, in week 1)
demand_formula_RowAbove(w) ==
    IF w = 1 THEN RInt(0) ELSE DemandCell(10 + w).weeklyOrders

\* column G: ='DEMAND FORECAST'!$D${11 + week}
demand_formula(w) == DemandCell(11 + w).weeklyOrders

\* a utilization cell that shows 100% for a stage without capacity
util_formula_Full(F, G) == IF RGt(F, RInt(0)) THEN RDiv(G, F) ELSE RInt(1)

\* column H: =IF(F{row}>0,G{row}/F{row},0)
util_formula(F, G) == IF RGt(F, RInt(0)) THEN RDiv(G, F) ELSE RInt(0)

\* a backlog cell without the test on the utilization
backlog_formula_Unclamped(H, G, F) == RSub(G, F)

\* column I: =IF(H{row}>1,(G{row}-F{row}),0)
backlog_formula(H, G, F) == IF RGt(H, RInt(1)) THEN RSub(G, F) ELSE RInt(0)

\* column J: =IF(H{current_row}=MAX($H${row}:$H${row+3}),"YES","") ; the range
\* is written with the value the running variable row has at that moment
bn_range(r) == r .. (r + 3)

\* the rows of one stage of one week
CapacityRow(w, s, r) ==
    LET D == Headcount(w, s)
        E == cap_ref(s)
        F == cap_formula(D, E)
        G == demand_formula(w)
        H == util_formula(F, G)
    IN  [week |-> w, stage |-> s, headcount |-> D, capPerPerson |-> E,
         totalCapacity |-> F, weeklyDemand |-> G, utilization |-> H,
         backlog |-> backlog_formula(H, G, F), bnRange |-> bn_range(r)]

\* one iteration of the loop over the capacity weeks: the four stage rows,
\* then one more row left blank between weeks
BuildCapacityModelWeek ==
    /\ pc = "capacity"
    /\ week <= CapacityWeeks
    /\ capacity' = capacity @@
          [r \in row .. (row + NumStages - 1) |-> CapacityRow(week, r - row + 1, r)]
    /\ row' = row + NumStages + 1
    /\ IF week = CapacityWeeks
       THEN pc' = "facility" /\ week' = 1
       ELSE pc' = pc /\ week' = week + 1
    /\ UNCHANGED <<inputs, scenarios, demand, bottleneck, facility,
                   fills, comparison, dashboard, saved>>

(***************************************************************************)
(* FACILITY & EQUIPMENT tab.                                               *)
(***************************************************************************)
\* 'INPUTS - Current State'!C34:C36, D34:D36 and E34:E36
current_ref(f) == inputs.facility[f].current
max_ref(f) == inputs.facility[f].max
per_unit_ref(f) == inputs.facility[f].perUnit

\* columns D and H: =ROUNDUP(C{row}/'INPUTS - Current State'!$E$34,0) (and $E$36)
\* column F:        =ROUNDUP(C{row}*'INPUTS - Current State'!$E$35,0)
needed_formula(f, C) ==
    IF f = Storage
    THEN ROUNDUP(RMul(C, RInt(per_unit_ref(f))))
    ELSE ROUNDUP(RDiv(C, RInt(per_unit_ref(f))))

\* available columns that refer to the Max Capacity column instead
avail_formula_Max(f) == inputs.facility[f].max

\* columns E, G and I: the currently available units
avail_formula(f) == current_ref(f)

\* a constraint test that also fires when needed equals available
constraint_formula_Ge(needed, avail) ==
    \E f \in DOMAIN needed : needed[f] >= avail[f]

\* column J: =IF(OR(D{row}>E{row},F{row}>G{row},H{row}>I{row}),"CONSTRAINT","")
constraint_formula(needed, avail) ==
    \E f \in DOMAIN needed : needed[f] > avail[f]

\* column C, "Daily Orders": ='DEMAND FORECAST'!C{11+week}
facility_daily_formula(w) == DemandCell(11 + w).dailyOrders

\* one iteration of the loop over the facility weeks
BuildFacilityRow ==
    /\ pc = "facility"
    /\ week <= ForecastWeeks
    /\ LET C == facility_daily_formula(week)
           needed == [f \in DOMAIN facilities |-> needed_formula(f, C)]
           avail == [f \in DOMAIN facilities |-> avail_formula(f)]
       IN  facility' = Append(facility,
                          [week |-> week, dailyOrders |-> C, needed |-> needed,
                           avail |-> avail,
                           constraint |-> constraint_formula(needed, avail)])
    /\ IF week = ForecastWeeks
       THEN pc' = "comparison" /\ week' = 1
       ELSE pc' = pc /\ week' = week + 1
    /\ UNCHANGED <<inputs, scenarios, demand, capacity, bottleneck, row,
                   fills, comparison, dashboard, saved>>

\* the values of column H of the CAPACITY MODEL tab in a range of rows
HRange(rows) == { capacity[q].utilization : q \in rows \cap DOMAIN capacity }

(***************************************************************************)
(* SCENARIO COMPARISON tab: the metrics table, one column per scenario.    *)
(***************************************************************************)
\* the forecast weeks the "Week 12 / 24 / 52 Daily Orders" rows refer to
\* ('DEMAND FORECAST'!C23, C35 and C63), scaled to the model's weeks: a week
\* before the end of the capacity table, its last week, the last forecast week
comparison_weeks == <<CapacityWeeks - 1, CapacityWeeks, ForecastWeeks>>

\* the factors of the Optimistic and Pessimistic daily-orders cells
\* (=C9*1.04, =C10*1.08, =C11*1.16 and =C9*0.96, =C10*0.92, =C11*0.84)
orders_factor(sc) ==
    IF sc = Optimistic THEN <<R(104, 100), R(108, 100), R(116, 100)>>
    ELSE IF sc = Pessimistic THEN <<R(96, 100), R(92, 100), R(84, 100)>>
    ELSE <<RInt(1), RInt(1), RInt(1)>>

\* a growth cell that refers to the Baseline column for every scenario
growth_metric_Baseline(sc, scen) == scen.growth[Baseline]

\* row 8, "Monthly Growth Rate": ='INPUTS - Scenarios'!C8 (D8, E8)
growth_metric(sc, scen) == scen.growth[sc]

\* rows 9..11: the Baseline cell refers to the DEMAND FORECAST row, the other
\* two cells multiply the Baseline cell of the same row by a fixed factor
orders_metric(sc, k) ==
    RMul(demand[comparison_weeks[k]].dailyOrders, orders_factor(sc)[k])

\* row 12, "Est. Week Bottleneck First Hit": the written values "4", "3", "6"
first_hit_metric(sc) ==
    IF sc = Baseline THEN 4 ELSE IF sc = Optimistic THEN 3 ELSE 6

\* row 14, "Total Hires Planned": the written values "5", "9", "2"
total_hires_metric(sc) ==
    IF sc = Baseline THEN 5 ELSE IF sc = Optimistic THEN 9 ELSE 2

\* one column of the metrics table, from the INPUTS - Scenarios cells scen
comparison_column(sc, scen) ==
    [growth |-> growth_metric(sc, scen),
     dailyOrders |-> [k \in DOMAIN comparison_weeks |-> orders_metric(sc, k)],
     firstHit |-> first_hit_metric(sc),
     bottleneckStage |-> "PV2 Techs",
     totalHires |-> total_hires_metric(sc)]

BuildScenarioComparison ==
    /\ pc = "comparison"
    /\ comparison' = [sc \in DOMAIN scenario_names |-> comparison_column(sc, scenarios)]
    /\ pc' = "dashboard"
    /\ UNCHANGED <<inputs, scenarios, demand, capacity, bottleneck, facility,
                   week, row, fills, dashboard, saved>>

(***************************************************************************)
(* DASHBOARD tab: the bottleneck alert.                                    *)
(***************************************************************************)
\* C12: =MAX('CAPACITY MODEL'!H12:H15)
dashboard_utilization == MAX(HRange(12 .. 15))

\* the utilization heatmap: one row per stage, the columns are weeks 1, 4, 8
\* and 12, the values are written as constants
heatmap_weeks == <<1, 4, 8, 12>>

stages_data ==
    << <<R(67, 100), R(72, 100), R(78, 100), R(84, 100)>>,
       <<R(50, 100), R(54, 100), R(58, 100), R(63, 100)>>,
       <<R(83, 100), R(90, 100), R(97, 100), R(105, 100)>>,
       <<R(67, 100), R(72, 100), R(78, 100), R(84, 100)>> >>

\* if val < 0.7: GREEN_OK / elif val < 0.9: YELLOW_WARN / else: RED_ALERT
heatmap_fill(val) ==
    IF RLt(val, R(7, 10)) THEN "GREEN_OK"
    ELSE IF RLt(val, R(9, 10)) THEN "YELLOW_WARN"
    ELSE "RED_ALERT"

heatmap ==
    [s \in DOMAIN stages_data |->
        [k \in DOMAIN heatmap_weeks |->
            [week |-> heatmap_weeks[k], value |-> stages_data[s][k],
             fill |-> heatmap_fill(stages_data[s][k])]]]

BuildDashboard ==
    /\ pc = "dashboard"
    /\ dashboard' = [stage |-> "PV2 Techs", utilization |-> dashboard_utilization,
                     weeksTo100 |-> 4, heatmap |-> heatmap]
    /\ pc' = "calculate"
    /\ UNCHANGED <<inputs, scenarios, demand, capacity, bottleneck, facility,
                   week, row, fills, comparison, saved>>

(***************************************************************************)
(* The saved workbook is calculated when it is opened: column J of the     *)
(* CAPACITY MODEL tab reads rows written after its own, so its value is    *)
(* taken once every row is in place.  Rows that were never written are     *)
(* blank cells.                                                            *)
(***************************************************************************)
bn_formula(r) == capacity[r].utilization = MAX(HRange(capacity[r].bnRange))

\* the conditional formatting of H11:H100: green below 0.7, yellow between
\* 0.7 and 0.9 (Excel's "between" includes both ends), red above 0.9
WarnThreshold == R(7, 10)
CriticalThreshold == R(9, 10)

green_rule(u) == RLt(u, WarnThreshold)

\* a yellow rule that leaves out its upper end
yellow_rule_Exclusive(u) == RGe(u, WarnThreshold) /\ RLt(u, CriticalThreshold)

yellow_rule(u) == RGe(u, WarnThreshold) /\ RLe(u, CriticalThreshold)

red_rule(u) == RGt(u, CriticalThreshold)

\* the fills the three rules give a cell of value u
rule_fills(u) ==
    (IF green_rule(u) THEN {"GREEN_OK"} ELSE {})
    \cup (IF yellow_rule(u) THEN {"YELLOW_WARN"} ELSE {})
    \cup (IF red_rule(u) THEN {"RED_ALERT"} ELSE {})

\* the rules are attached to H11:H100
utilization_fills(r) ==
    IF r \in 11 .. 100 THEN rule_fills(capacity[r].utilization) ELSE {}

\* the summary at the top of the CAPACITY MODEL tab: C5 is the text
\* "PV2 Techs", C6 ("Week 1 Utilization") is =MAX(H12:H17)
summary_stage == "PV2 Techs"
summary_utilization == MAX(HRange(12 .. 17))

\* wb.save(output_file): saved collects the file each run of main has written
Calculate ==
    /\ pc = "calculate"
    /\ bottleneck' = [r \in DOMAIN capacity |-> bn_formula(r)]
    /\ fills' = [r \in DOMAIN capacity |-> utilization_fills(r)]
    /\ saved' = Append(saved,
                    [demand |-> demand, capacity |-> capacity,
                     facility |-> facility, comparison |-> comparison,
                     dashboard |-> dashboard, bottleneck |-> bottleneck',
                     fills |-> fills'])
    /\ pc' = "done"
    /\ UNCHANGED <<inputs, scenarios, demand, capacity, facility, week, row,
                   comparison, dashboard>>

\* a workbook that still holds what the run before has written to it
create_workbook_Kept ==
    [demand |-> demand, capacity |-> capacity, bottleneck |-> bottleneck,
     facility |-> facility, fills |-> fills, comparison |-> comparison,
     dashboard |-> dashboard]

\* wb = Workbook(), the default sheet removed, the eight tabs created empty
create_workbook ==
    [demand |-> << >>, capacity |-> << >>, bottleneck |-> << >>,
     facility |-> << >>, fills |-> << >>, comparison |-> << >>,
     dashboard |-> << >>]

\* the program is run again, with the same input cells
MaxRuns == 2

Main ==
    /\ pc = "done"
    /\ Len(saved) < MaxRuns
    /\ LET wb == create_workbook
       IN  /\ demand' = wb.demand
           /\ capacity' = wb.capacity
           /\ bottleneck' = wb.bottleneck
           /\ facility' = wb.facility
           /\ fills' = wb.fills
           /\ comparison' = wb.comparison
           /\ dashboard' = wb.dashboard
    /\ pc' = "demand"
    /\ week' = 1
    /\ row' = FirstCapacityRow
    /\ UNCHANGED <<inputs, scenarios, saved>>

Next ==
    \/ Main
    \/ BuildDemandForecastRow
    \/ BuildCapacityModelWeek
    \/ BuildFacilityRow
    \/ BuildScenarioComparison
    \/ BuildDashboard
    \/ Calculate

Spec == Init /\ [][Next]_vars

(***************************************************************************)
(* Properties.                                                             *)
(***************************************************************************)
Done == pc = "done"

\* the weekly growth rate as a fraction: monthlyGrowthPercent / 4.33 / 100
weeklyGrowthRate == RDiv(RDiv(inputs.monthlyGrowth, WeeksPerMonth), RInt(100))

\* C1: dailyOrders[1] is the baseline and, for every later forecast week,
\* dailyOrders[w] = dailyOrders[w-1] * (1 + weeklyGrowthRate), whatever the
\* week number and the working days per week.
C1_DemandRecurrence ==
    \A w \in DOMAIN demand :
        /\ w = 1 => demand[w].dailyOrders = RInt(inputs.baselineDailyOrders)
        /\ w >= 2 => demand[w].dailyOrders =
                        RMul(demand[w - 1].dailyOrders,
                             RAdd(RInt(1), weeklyGrowthRate))

\* C2: with a positive baseline, daily orders strictly increase from week to
\* week under positive growth, stay equal under zero growth and strictly
\* decrease under negative growth.
C2_GrowthMonotonicity ==
    \A w \in DOMAIN demand :
        w >= 2 =>
            LET g == inputs.monthlyGrowth
                prev == demand[w - 1].dailyOrders
                cur == demand[w].dailyOrders
            IN  /\ g.n > 0 => RGt(cur, prev)
                /\ g.n = 0 => cur = prev
                /\ g.n < 0 => RLt(cur, prev)

\* the utilizations of exactly the stages of week w
WeekUtilizations(w) ==
    { capacity[r].utilization : r \in { q \in DOMAIN capacity : capacity[q].week = w } }

IsWeekMax(r) == capacity[r].utilization = RMax(WeekUtilizations(capacity[r].week))

\* C3: in the calculated workbook a stage row is flagged as bottleneck if and
\* only if its utilization is the maximum over the stages of its own week.
C3_BottleneckIsWeekMax ==
    Done => \A r \in DOMAIN capacity : bottleneck[r] <=> IsWeekMax(r)

\* C4: whenever two different stages of a week both have the week's maximum
\* utilization, both are flagged as bottleneck.
C4_BottleneckTie ==
    Done => \A r1, r2 \in DOMAIN capacity :
                ( /\ r1 # r2
                  /\ capacity[r1].week = capacity[r2].week
                  /\ IsWeekMax(r1)
                  /\ IsWeekMax(r2) )
                => (bottleneck[r1] /\ bottleneck[r2])

\* the hires of the plan that are on the role of stage s, and those of them
\* that have finished onboarding in week w
HiresOf(s) ==
    { i \in DOMAIN scenarios.baselineHires :
        scenarios.baselineHires[i].role = stages[s] }

OnboardedHires(s, w) ==
    { i \in HiresOf(s) :
        w >= scenarios.baselineHires[i].week + scenarios.baselineHires[i].onboarding }

\* C5: the headcount of every stage row is the base headcount plus the counts
\* of the hires of that role with w >= effectiveWeek + onboardingWeeks.
C5_HiringContribution ==
    \A r \in DOMAIN capacity :
        capacity[r].headcount =
            inputs.headcount[capacity[r].stage]
            + HireSum(scenarios.baselineHires,
                      OnboardedHires(capacity[r].stage, capacity[r].week))

\* C6: in a week in which no hire of a stage's role has finished onboarding,
\* the hires add nothing to that stage's headcount nor to its weekly capacity.
C6_OnboardingGating ==
    \A r \in DOMAIN capacity :
        LET s == capacity[r].stage
            w == capacity[r].week
        IN  OnboardedHires(s, w) = {} =>
                /\ capacity[r].headcount = inputs.headcount[s]
                /\ capacity[r].totalCapacity =
                      RInt(inputs.headcount[s] * inputs.capPerPerson[s]
                           * inputs.workingDays)

\* a stage row of a week in which a hire of its role is still onboarding
C6_Witness ==
    \E r \in DOMAIN capacity :
        /\ HiresOf(capacity[r].stage) # {}
        /\ OnboardedHires(capacity[r].stage, capacity[r].week) = {}
        /\ \E i \in HiresOf(capacity[r].stage) :
              capacity[r].week >= scenarios.baselineHires[i].week
        /\ capacity[r].headcount > 0

\* the capacity multiplier of week w for a stage the equipment event applies to
capacityMultiplier(w) ==
    IF w >= inputs.equipment.week
    THEN RAdd(RInt(1), R(inputs.equipment.boostPercent, 100))
    ELSE RInt(1)

\* C7: weekly capacity = headcount * capacityPerPerson * workingDays *
\* capacityMultiplier(w); the equipment event boosts the capacity of its
\* stage (at least one stage) from its effective week on.
C7_EquipmentBoost ==
    Done => \E s \in DOMAIN stages :
                \A r \in DOMAIN capacity :
                    capacity[r].stage = s =>
                        capacity[r].totalCapacity =
                            RMul(RInt(capacity[r].headcount * capacity[r].capPerPerson
                                      * inputs.workingDays),
                                 capacityMultiplier(capacity[r].week))

\* C8: for every resource and week, unitsNeeded = ceil(dailyOrders /
\* throughputPerUnitPerDay).
C8_FacilityNeedRoundsUp ==
    \A i \in DOMAIN facility :
        \A f \in DOMAIN facilities :
            facility[i].needed[f] =
                Ceil(RDiv(demand[facility[i].week].dailyOrders,
                          RInt(inputs.facility[f].perUnit)))

\* C9 as stated: a week is constrained if and only if some resource's needed
\* units exceed its maximum capacity.
C9_ConstrainedAgainstMax ==
    \A i \in DOMAIN facility :
        facility[i].constraint <=>
            \E f \in DOMAIN facilities :
                facility[i].needed[f] > inputs.facility[f].max

\* C9 as amended: a week is constrained if and only if some resource's needed
\* units exceed the Current Available input of that resource; Max Capacity
\* takes no part in the flag.
C9_ConstrainedAgainstCurrent ==
    \A i \in DOMAIN facility :
        facility[i].constraint <=>
            \E f \in DOMAIN facilities :
                facility[i].needed[f] > inputs.facility[f].current

\* a flagged week in which no resource is needed beyond its maximum capacity
C9_Witness ==
    \E i \in DOMAIN facility :
        /\ facility[i].constraint
        /\ \A f \in DOMAIN facilities :
              facility[i].needed[f] <= inputs.facility[f].max

\* C10: a week is marked CONSTRAINT if and only if, in that week's row, the
\* needed units of some resource strictly exceed its available units; needed
\* equal to available is not a constraint.
C10_OperationalConstraintFlag ==
    \A i \in DOMAIN facility :
        /\ facility[i].constraint =>
              \E f \in DOMAIN facilities :
                  facility[i].needed[f] > facility[i].avail[f]
        /\ \A f \in DOMAIN facilities :
              facility[i].needed[f] > facility[i].avail[f] => facility[i].constraint
        /\ (\A f \in DOMAIN facilities :
              facility[i].needed[f] <= facility[i].avail[f]) => ~facility[i].constraint

\* an unflagged week in which a resource is needed exactly as much as available
C10_Witness ==
    \E i \in DOMAIN facility :
        /\ ~facility[i].constraint
        /\ \E f \in DOMAIN facilities :
              facility[i].needed[f] = facility[i].avail[f]

\* the class the classification gives a utilization u
ThresholdClass(u) ==
    IF RLt(u, R(70, 100)) THEN "GREEN_OK"
    ELSE IF RLe(u, R(90, 100)) THEN "YELLOW_WARN"
    ELSE "RED_ALERT"

\* C11: every stage row's utilization gets exactly one class: OK (green)
\* below 0.70, WARNING (yellow) from 0.70 to 0.90 with both ends, CRITICAL
\* (red) above 0.90.
C11_ThresholdClassification ==
    Done => \A r \in DOMAIN capacity :
                fills[r] = {ThresholdClass(capacity[r].utilization)}

\* a calculated workbook with a stage at exactly 0.70 and a stage at exactly 0.90
C11_Witness ==
    /\ Done
    /\ \E r \in DOMAIN capacity : capacity[r].utilization = R(7, 10)
    /\ \E r \in DOMAIN capacity : capacity[r].utilization = R(9, 10)

\* the computed weeks of stage s in which its utilization exceeds 0.90
CriticalWeeks(s) ==
    { capacity[r].week : r \in { q \in DOMAIN capacity :
                                   /\ capacity[q].stage = s
                                   /\ RGt(capacity[q].utilization, R(90, 100)) } }

\* the first of them, 0 standing for "none"
firstCriticalWeek(s) ==
    IF CriticalWeeks(s) = {} THEN 0
    ELSE CHOOSE w \in CriticalWeeks(s) : \A v \in CriticalWeeks(s) : w <= v

\* C12: the first critical week reported for a scenario (and the dashboard's
\* figure) is the smallest week with utilization > 0.90 of a stage, 0 ("none")
\* when there is no such week; stated for the weakest reading, some stage.
C12_FirstCriticalWeek ==
    Done => /\ \A sc \in DOMAIN comparison :
                  \E s \in DOMAIN stages :
                      comparison[sc].firstHit = firstCriticalWeek(s)
            /\ \E s \in DOMAIN stages : dashboard.weeksTo100 = firstCriticalWeek(s)

\* the forecast recurrence as the DEMAND FORECAST tab computes it, run with the
\* monthly growth g (percent) on the shared baseline inputs
RECURSIVE ScenarioDailyOrders(_, _)
ScenarioDailyOrders(g, w) ==
    IF w = 1
    THEN RInt(inputs.baselineDailyOrders)
    ELSE RDiv(RMul(RMul(RInt(w - 1), ScenarioDailyOrders(g, w - 1)),
                   RAdd(RInt(1), RDiv(RDiv(g, WeeksPerMonth), RInt(100)))),
              RInt(inputs.workingDays))

\* C13: the daily orders reported for a scenario at each comparison week are
\* the forecast recurrence run with that scenario's own monthly growth rate.
C13_PerScenarioForecast ==
    \A sc \in DOMAIN comparison :
        \A k \in DOMAIN comparison_weeks :
            comparison[sc].dailyOrders[k] =
                ScenarioDailyOrders(scenarios.growth[sc], comparison_weeks[k])

\* the INPUTS - Scenarios cells with the growth and the hiring plan of
\* scenario a replaced
WithScenarioInputs(a, g, h) ==
    [scenarios EXCEPT
        !.growth[a] = g,
        !.baselineHires = IF a = Baseline THEN h ELSE @,
        !.optimisticHires = IF a = Optimistic THEN h ELSE @,
        !.pessimisticHires = IF a = Pessimistic THEN h ELSE @]

AlternativeGrowth == GrowthInputs \cup {RInt(433)}

\* C14: whatever growth rate and hiring plan scenario a is given instead, the
\* comparison column of every other scenario b is the one that was written.
C14_ScenarioIsolation ==
    \A a, b \in DOMAIN comparison :
        a # b =>
            \A g \in AlternativeGrowth, h \in HiringInputs :
                comparison_column(b, WithScenarioInputs(a, g, h)) = comparison[b]

\* the comparison is written, and scenario inputs other than the ones used
\* exist for each scenario
C14_Witness ==
    /\ DOMAIN comparison = DOMAIN scenario_names
    /\ \A a \in DOMAIN comparison :
          \E g \in AlternativeGrowth, h \in HiringInputs :
              WithScenarioInputs(a, g, h) # scenarios
    /\ \E a, b \in DOMAIN comparison : comparison[a].growth # comparison[b].growth

\* C15: once the forecast is written it has exactly as many rows as the
\* configured forecast period, for weeks 1, 2, ... in order.
C15_ForecastLength ==
    pc # "demand" =>
        /\ Len(demand) = inputs.forecastPeriod
        /\ \A w \in DOMAIN demand : demand[w].week = w

\* C16: every week of the demand forecast has a utilization row for every stage.
C16_UtilizationCoverage ==
    Done => \A w \in DOMAIN demand :
                \A s \in DOMAIN stages :
                    \E r \in DOMAIN capacity :
                        capacity[r].week = w /\ capacity[r].stage = s

\* a configuration the validation has to reject
InvalidConfiguration ==
    \/ \E s \in DOMAIN stages : inputs.headcount[s] < 0 \/ inputs.capPerPerson[s] <= 0
    \/ \E f \in DOMAIN facilities : inputs.facility[f].perUnit <= 0
    \/ inputs.forecastPeriod < 1
    \/ \E i \in DOMAIN scenarios.baselineHires :
          \A s \in DOMAIN stages : scenarios.baselineHires[i].role # stages[s]

\* C17: from an invalid configuration no forecast, utilization or facility
\* value is ever produced.
C17_ConfigurationValidation ==
    InvalidConfiguration =>
        /\ demand = << >>
        /\ DOMAIN capacity = {}
        /\ facility = << >>

\* C18: utilization = weeklyDemand / totalWeeklyCapacity when the capacity is
\* positive, and 0 when the capacity is 0, whatever the demand.
C18_UtilizationBoundary ==
    \A r \in DOMAIN capacity :
        /\ RGt(capacity[r].totalCapacity, RInt(0)) =>
              capacity[r].utilization =
                  RDiv(capacity[r].weeklyDemand, capacity[r].totalCapacity)
        /\ capacity[r].totalCapacity = RInt(0) => capacity[r].utilization = RInt(0)

\* a stage row without capacity facing a positive demand
C18_Witness ==
    \E r \in DOMAIN capacity :
        /\ capacity[r].totalCapacity = RInt(0)
        /\ RGt(capacity[r].weeklyDemand, RInt(0))

\* C19: backlog = weeklyDemand - totalWeeklyCapacity when utilization > 1 and
\* 0 otherwise; it is never negative and is 0 at a utilization of exactly 1.
C19_BacklogFormula ==
    \A r \in DOMAIN capacity :
        /\ capacity[r].backlog =
              IF RGt(capacity[r].utilization, RInt(1))
              THEN RSub(capacity[r].weeklyDemand, capacity[r].totalCapacity)
              ELSE RInt(0)
        /\ RGe(capacity[r].backlog, RInt(0))
        /\ capacity[r].utilization = RInt(1) => capacity[r].backlog = RInt(0)

\* rows above, at and below a utilization of 1
C19_Witness ==
    /\ \E r \in DOMAIN capacity :
          RGt(capacity[r].utilization, RInt(1)) /\ RGt(capacity[r].backlog, RInt(0))
    /\ \E r \in DOMAIN capacity : capacity[r].utilization = RInt(1)
    /\ \E r \in DOMAIN capacity :
          /\ RLt(capacity[r].utilization, RInt(1))
          /\ RGt(capacity[r].totalCapacity, RInt(0))

\* the sum of the weekly orders of weeks 1..w
RECURSIVE WeeklyOrdersSum(_)
WeeklyOrdersSum(w) ==
    IF w = 0 THEN RInt(0) ELSE RAdd(WeeklyOrdersSum(w - 1), demand[w].weeklyOrders)

\* C20: cumulativeOrders[w] is the sum of weeklyOrders[1..w] in every forecast
\* week, with cumulativeOrders[1] = weeklyOrders[1].
C20_CumulativeSumLaw ==
    \A w \in DOMAIN demand : demand[w].cumulativeOrders = WeeklyOrdersSum(w)

\* a forecast of at least three weeks
C20_Witness == Len(demand) >= 3

\* C21: in every computed week every stage's weekly demand is the weekly orders
\* of the forecast of the same week, and the daily orders of the facility check
\* of a week are the daily orders of the forecast of that week.
C21_DemandAlignment ==
    /\ \A r \in DOMAIN capacity :
          capacity[r].weeklyDemand = demand[capacity[r].week].weeklyOrders
    /\ \A w \in DOMAIN facility :
          facility[w].dailyOrders = demand[facility[w].week].dailyOrders

\* stage rows and facility rows of a week whose orders differ from those of
\* the week before
C21_Witness ==
    /\ \E r \in DOMAIN capacity :
          /\ capacity[r].week > 1
          /\ demand[capacity[r].week].weeklyOrders
                 # demand[capacity[r].week - 1].weeklyOrders
    /\ \E w \in DOMAIN facility :
          w > 1 /\ demand[w].dailyOrders # demand[w - 1].dailyOrders

Week1MaxStages ==
    { stages[capacity[r].stage] :
        r \in { q \in DOMAIN capacity : capacity[q].week = 1 /\ IsWeekMax(q) } }

\* C23: the current bottleneck stage and the week-1 utilization shown at the top
\* of the capacity model and in the dashboard are a stage of maximum
\* utilization in week 1 and the maximum over exactly the four stages of week 1.
C23_Week1BottleneckSummary ==
    Done => /\ summary_utilization = RMax(WeekUtilizations(1))
            /\ dashboard.utilization = RMax(WeekUtilizations(1))
            /\ summary_stage \in Week1MaxStages
            /\ dashboard.stage \in Week1MaxStages

\* C24: in every stage row the backlog is max(0, weeklyDemand -
\* totalWeeklyCapacity), also in a row whose capacity is 0.
C24_BacklogShowsUnmetDemand ==
    \A r \in DOMAIN capacity :
        capacity[r].backlog =
            RMax({RInt(0), RSub(capacity[r].weeklyDemand, capacity[r].totalCapacity)})

\* C25: the heatmap's colouring and the capacity model's rules give the same
\* class to every utilization that either of them colours.
C25_ClassifierAgreement ==
    Done => /\ \A s \in DOMAIN dashboard.heatmap :
                  \A k \in DOMAIN dashboard.heatmap[s] :
                      rule_fills(dashboard.heatmap[s][k].value)
                          = {dashboard.heatmap[s][k].fill}
            /\ \A r \in DOMAIN capacity :
                  fills[r] = {heatmap_fill(capacity[r].utilization)}

\* the weeks that have stage rows
ComputedWeeks == { capacity[r].week : r \in DOMAIN capacity }

\* C26: every computed week has a stage flagged as bottleneck, and a flagged
\* stage's utilization is at least that of every stage of its week.
C26_EveryWeekHasBottleneck ==
    Done => /\ \A w \in ComputedWeeks :
                  \E r \in DOMAIN capacity : capacity[r].week = w /\ bottleneck[r]
            /\ \A r \in DOMAIN capacity : bottleneck[r] => IsWeekMax(r)

====
